---- MODULE Spec2Model ----
(***************************************************************************)
(* Locator resolution and self-correcting verification of generated test   *)
(* code: CodeVerifier (utils/code_verifier.py), LocatorSelector            *)
(* (utils/locator_strategy.py) and ImplementationAgent's correction loop   *)
(* (agents/implementation_agent.py); the loop of generate_test_code over   *)
(* a test plan; the evidence of TestExecutor (utils/test_executor.py); the *)
(* chat session of GeminiClient (utils/gemini_client.py).                  *)
(*                                                                         *)
(* Text (code artifacts, locator literals, attribute values, selectors) is *)
(* a sequence of one-character strings, so that Python's substring test,   *)
(* str.replace, str.strip, str.split and the regular expressions of the    *)
(* verifier are computed character by character.                           *)
(***************************************************************************)
EXTENDS Integers, Sequences, FiniteSets, TLC

(***************************************************************************)
(* Bounds of the model.                                                    *)
(***************************************************************************)
\* most locator calls in one generated artifact
MaxCalls == 2
\* most test cases in one test plan
MaxTests == 2
\* most runs of one test executor
MaxRuns == 4
\* most steps a test logs, most screenshots it captures
MaxSteps == 3
MaxShots == 2
\* most messages sent to one chat session, most chat calls of one client
MaxMessages == 4
MaxRequests == 8

(***************************************************************************)
(* Program constants.                                                      *)
(***************************************************************************)
\* default of the max_corrections parameter of _verify_and_correct_code
max_corrections == 2
\* text[:50] in _generate_locators
TEXT_LIMIT == 50

(***************************************************************************)
(* Character classes and fixed pieces of text.                             *)
(***************************************************************************)
Letters ==
  {"a","b","c","d","e","f","g","h","i","j","k","l","m","n","o","p","q","r",
   "s","t","u","v","w","x","y","z"}
\* \w of Python's re module, over the characters the model uses
WordChars == Letters \cup {"_"}
Whitespace == {" ", "\n"}
Quotes == {"\"", "'"}

T_page_locator == <<"p","a","g","e",".","l","o","c","a","t","o","r","(">>
T_page_get_by == <<"p","a","g","e",".","g","e","t","_","b","y","_">>
T_locator == <<"l","o","c","a","t","o","r","(">>
T_get_by_text == <<"g","e","t","_","b","y","_","t","e","x","t">>
T_get_by_label == <<"g","e","t","_","b","y","_","l","a","b","e","l">>
T_get_by_role == <<"g","e","t","_","b","y","_","r","o","l","e">>
T_click == <<".","c","l","i","c","k","(",")">>
T_contains_text == <<"/","/","*","[","c","o","n","t","a","i","n","s","(","t","e","x","t","(",")",","," ">>
T_label_a == <<"/","/","l","a","b","e","l","[","c","o","n","t","a","i","n","s","(","t","e","x","t","(",")",","," ">>
T_label_b == <<")","]","/","/","f","o","l","l","o","w","i","n","g","-","s","i","b","l","i","n","g",":",":","*","[","1","]"," ","|"," ","/","/","*","[","@","a","r","i","a","-","l","a","b","e","l","=">>

(***************************************************************************)
(* Python string primitives.                                               *)
(***************************************************************************)
Min(a, b) == IF a < b THEN a ELSE b

\* text[i:].startswith(pat), positions from 1
StartsAt(text, pat, i) ==
  /\ i >= 1
  /\ i + Len(pat) - 1 <= Len(text)
  /\ \A k \in 1..Len(pat) : text[i + k - 1] = pat[k]

MinOf(S) == CHOOSE k \in S : \A j \in S : k <= j
MaxOf(S) == CHOOSE k \in S : \A j \in S : k >= j

\* str.find from position i: the leftmost position of pat at or after i, 0 if none
Find(text, pat, i) ==
  LET S == {k \in i..(Len(text) - Len(pat) + 1) : StartsAt(text, pat, k)}
  IN IF S = {} THEN 0 ELSE MinOf(S)

\* Python's  pat in text
Contains(text, pat) == Find(text, pat, 1) # 0

\* the leftmost position at or after i holding a character of set cs, 0 if none
FindChar(text, cs, i) ==
  LET S == {k \in i..Len(text) : text[k] \in cs}
  IN IF S = {} THEN 0 ELSE MinOf(S)

\* the leftmost position at or after i holding a character outside cs, Len+1 if none
SkipChars(text, cs, i) ==
  LET S == {k \in i..Len(text) : text[k] \notin cs}
  IN IF i > Len(text) THEN i ELSE IF S = {} THEN Len(text) + 1 ELSE MinOf(S)

\* str.replace(old, new): every non-overlapping occurrence, left to right
RECURSIVE ReplaceAllFrom(_, _, _, _)
ReplaceAllFrom(text, old, new, i) ==
  LET k == Find(text, old, i)
  IN IF k = 0 THEN SubSeq(text, i, Len(text))
     ELSE SubSeq(text, i, k - 1) \o new \o ReplaceAllFrom(text, old, new, k + Len(old))

str_replace(text, old, new) ==
  IF Len(old) = 0 THEN text ELSE ReplaceAllFrom(text, old, new, 1)

\* the last position at or before i holding a character outside cs, 0 if none
SkipCharsBack(text, cs, i) ==
  LET S == {k \in 1..i : text[k] \notin cs /\ \A j \in (k + 1)..i : text[j] \in cs}
  IN IF S = {} THEN 0 ELSE MaxOf(S)

\* str.strip(chars)
str_strip(text, cs) ==
  LET a == SkipChars(text, cs, 1)
      b == SkipCharsBack(text, cs, Len(text))
  IN IF a > b THEN <<>> ELSE SubSeq(text, a, b)

\* str.split()[0] when the split is not empty: the first whitespace-delimited token
first_token(text) ==
  LET a == SkipChars(text, Whitespace, 1)
      e == FindChar(text, Whitespace, a)
  IN IF e = 0 THEN SubSeq(text, a, Len(text)) ELSE SubSeq(text, a, e - 1)

\* str.split() == []: the text holds nothing but whitespace
split_is_empty(text) == SkipChars(text, Whitespace, 1) > Len(text)

\* the set of whitespace-delimited tokens of text (an element's class list)
RECURSIVE TokensFrom(_, _)
TokensFrom(text, i) ==
  LET a == SkipChars(text, Whitespace, i)
      e == FindChar(text, Whitespace, a)
  IN IF a > Len(text) THEN {}
     ELSE IF e = 0 THEN {SubSeq(text, a, Len(text))}
     ELSE {SubSeq(text, a, e - 1)} \cup TokensFrom(text, e + 1)

(***************************************************************************)
(* utils/locator_strategy.py: LocatorSelector.                             *)
(* An element descriptor is a record of texts; the empty text stands for a *)
(* missing, None or empty attribute (all are falsy for element.get).       *)
(***************************************************************************)
Q == <<"\"">>
BSQ == <<"\\", "\"">>

\* _generate_xpath raises IndexError: the class branch indexes split()[0], and the
\* split of a class attribute holding only whitespace is empty
_generate_xpath_raises(element) ==
  /\ element.id = <<>>
  /\ element.name = <<>>
  /\ element.class # <<>>
  /\ split_is_empty(element.class)

\* _generate_xpath: the XPath of an element, by id, name, first class or bare tag
\* (the value where _generate_xpath_raises holds is never used)
_generate_xpath(element) ==
  LET tag == element.tag
  IN IF element.id # <<>>
       THEN <<"/","/">> \o tag \o <<"[","@","i","d","=","'">> \o element.id \o <<"'","]">>
     ELSE IF element.name # <<>>
       THEN <<"/","/">> \o tag \o <<"[","@","n","a","m","e","=","'">> \o element.name \o <<"'","]">>
     ELSE IF element.class # <<>>
       THEN <<"/","/">> \o tag \o <<"[","@","c","l","a","s","s","=","'">>
            \o first_token(element.class) \o <<"'","]">>
     ELSE <<"/","/">> \o tag

\* sorted with reverse=True: the highest priority number first
sorted_by_priority_descending(locators) ==
  LET P(p) == SelectSeq(locators, LAMBDA l : l.priority = p)
  IN P(5) \o P(4) \o P(3) \o P(2) \o P(1)

\* a sort that is not stable: candidates of equal priority change places
sorted_by_priority_unstable(locators) ==
  LET P(p) == SelectSeq(locators, LAMBDA l : l.priority = p)
      R(q) == [k \in 1..Len(q) |-> q[Len(q) + 1 - k]]
  IN R(P(1)) \o R(P(2)) \o R(P(3)) \o R(P(4)) \o R(P(5))

\* sorted(locators, key=priority): Python's sort is stable
sorted_by_priority(locators) ==
  LET P(p) == SelectSeq(locators, LAMBDA l : l.priority = p)
  IN P(1) \o P(2) \o P(3) \o P(4) \o P(5)

\* _generate_locators: every candidate of an element, in emission order, then sorted
_generate_locators(element) ==
  LET idL == IF element.id # <<>>
               THEN << [strategy |-> "id", value |-> element.id, priority |-> 1,
                        playwright_code |-> T_page_locator \o Q \o <<"#">> \o element.id \o Q \o <<")">>] >>
               ELSE <<>>
      nameL == IF element.name # <<>>
               THEN << [strategy |-> "name", value |-> element.name, priority |-> 2,
                        playwright_code |-> T_page_locator \o Q \o <<"[","n","a","m","e","=">> \o BSQ
                                            \o element.name \o BSQ \o <<"]">> \o Q \o <<")">>] >>
               ELSE <<>>
      cssL == IF element.class # <<>> /\ ~split_is_empty(element.class)
               THEN << [strategy |-> "css", value |-> <<".">> \o first_token(element.class), priority |-> 3,
                        playwright_code |-> T_page_locator \o Q \o <<".">> \o first_token(element.class)
                                            \o Q \o <<")">>] >>
               ELSE <<>>
      semL == IF element.ariaLabel # <<>>
               THEN << [strategy |-> "semantic", value |-> element.ariaLabel, priority |-> 2,
                        playwright_code |-> <<"p","a","g","e",".">> \o T_get_by_label \o <<"(">> \o Q
                                            \o element.ariaLabel \o Q \o <<")">>] >>
              ELSE IF element.role # <<>>
               THEN << [strategy |-> "semantic", value |-> element.role, priority |-> 3,
                        playwright_code |-> <<"p","a","g","e",".">> \o T_get_by_role \o <<"(">> \o Q
                                            \o element.role \o Q \o <<")">>] >>
              ELSE <<>>
      xpath == _generate_xpath(element)
      xpathL == IF xpath # <<>>
               THEN << [strategy |-> "xpath", value |-> xpath, priority |-> 4,
                        playwright_code |-> T_page_locator \o Q \o xpath \o Q \o <<")">>] >>
               ELSE <<>>
      text == LET st == str_strip(element.text, Whitespace)
              IN SubSeq(st, 1, Min(TEXT_LIMIT, Len(st)))
      textL == IF element.text # <<>> /\ text # <<>>
               THEN << [strategy |-> "text", value |-> text, priority |-> 5,
                        playwright_code |-> <<"p","a","g","e",".">> \o T_get_by_text \o <<"(">> \o Q
                                            \o text \o Q \o <<")">>] >>
               ELSE <<>>
  IN sorted_by_priority(idL \o nameL \o cssL \o semL \o xpathL \o textL)

\* str.lower() over the letters the model uses
LowerOf ==
  [c \in {"A","B","L","S"} |->
     CASE c = "A" -> "a" [] c = "B" -> "b" [] c = "L" -> "l" [] c = "S" -> "s"]

str_lower(text) ==
  [k \in 1..Len(text) |-> IF text[k] \in DOMAIN LowerOf THEN LowerOf[text[k]] ELSE text[k]]

T_page == <<"p","a","g","e",".">>
T_label == <<"l","a","b","e","l">>
T_aria_label == <<"a","r","i","a","-","l","a","b","e","l">>
T_button == <<"b","u","t","t","o","n">>

\* get_playwright_locator_code for the semantic strategy: the method is read
\* off the lowered value
semantic_locator_code(value, lowered) ==
  IF Contains(lowered, T_aria_label) \/ Contains(lowered, T_label)
    THEN T_page \o T_get_by_label \o <<"(">> \o Q \o value \o Q \o <<")">>
  ELSE IF Contains(lowered, T_button)
    THEN T_page \o T_get_by_role \o <<"(">> \o Q \o T_button \o Q
         \o <<",", " ", "n","a","m","e","=">> \o Q \o value \o Q \o <<")">>
  ELSE T_page \o T_get_by_text \o <<"(">> \o Q \o value \o Q \o <<")">>

\* get_playwright_locator_code: the code a locator [strategy, value] renders to
get_playwright_locator_code(locator) ==
  IF locator.strategy = "id"
    THEN T_page_locator \o Q \o <<"#">> \o locator.value \o Q \o <<")">>
  ELSE IF locator.strategy = "name"
    THEN T_page_locator \o Q \o <<"[","n","a","m","e","=">> \o BSQ \o locator.value \o BSQ
         \o <<"]">> \o Q \o <<")">>
  ELSE IF locator.strategy \in {"css", "xpath"}
    THEN T_page_locator \o Q \o locator.value \o Q \o <<")">>
  ELSE IF locator.strategy = "semantic"
    THEN semantic_locator_code(locator.value, str_lower(locator.value))
  ELSE IF locator.strategy = "text"
    THEN T_page \o T_get_by_text \o <<"(">> \o Q \o locator.value \o Q \o <<")">>
  ELSE T_page_locator \o Q \o locator.value \o Q \o <<")">>

\* locators[1:3]
fallbacks_of(locators) ==
  IF Len(locators) > 1 THEN SubSeq(locators, 2, Min(3, Len(locators))) ELSE <<>>

\* the selection select_best_locator makes of an ordered, non-empty list
best_of(locators) ==
  [strategy |-> locators[1].strategy,
   value |-> locators[1].value,
   confidence |-> IF locators[1].priority <= 2 THEN "high" ELSE "medium",
   fallbacks |-> fallbacks_of(locators)]

\* select_best_locator once the generator has answered
best_generated(element, locators) ==
  IF locators = <<>>
    THEN [strategy |-> "xpath", value |-> <<"/","/">> \o element.tag,
          confidence |-> "low", fallbacks |-> <<>>]
  ELSE best_of(locators)

\* select_best_locator: the first of the element's suggested_locators when it
\* has any, else the first generated candidate
select_best_locator(element, suggested_locators) ==
  IF suggested_locators # <<>> THEN best_of(suggested_locators)
  ELSE best_generated(element, _generate_locators(element))

(***************************************************************************)
(* agents/exploration_agent.py: the locators suggested at exploration.     *)
(***************************************************************************)
\* ExplorationAgent._suggest_locators raises IndexError: split()[0] of a class
\* attribute holding only whitespace
_suggest_locators_raises(element) ==
  element.class # <<>> /\ split_is_empty(element.class)

\* ExplorationAgent._generate_xpath: by id, name or the whole class attribute;
\* <<>> for None
exploration_xpath(element) ==
  IF element.id # <<>>
    THEN <<"/","/">> \o element.tag \o <<"[","@","i","d","=","'">> \o element.id \o <<"'","]">>
  ELSE IF element.name # <<>>
    THEN <<"/","/">> \o element.tag \o <<"[","@","n","a","m","e","=","'">> \o element.name \o <<"'","]">>
  ELSE IF element.class # <<>>
    THEN <<"/","/">> \o element.tag \o <<"[","@","c","l","a","s","s","=","'">> \o element.class \o <<"'","]">>
  ELSE <<>>

\* the candidate [strategy, value, priority] when present holds, else nothing
suggestion(present, strategy, value, priority) ==
  IF present THEN << [strategy |-> strategy, value |-> value, priority |-> priority] >> ELSE <<>>

\* ExplorationAgent._suggest_locators: id, name, css, aria-label, text, xpath
\* in emission order, then sorted by priority
_suggest_locators(element) ==
  sorted_by_priority(
    suggestion(element.id # <<>>, "id", element.id, 1)
    \o suggestion(element.name # <<>>, "name", element.name, 2)
    \o suggestion(element.class # <<>>, "css", <<".">> \o first_token(element.class), 3)
    \o suggestion(element.ariaLabel # <<>>, "aria-label", element.ariaLabel, 2)
    \o suggestion(element.text # <<>>, "text",
                  SubSeq(element.text, 1, Min(TEXT_LIMIT, Len(element.text))), 4)
    \o suggestion(exploration_xpath(element) # <<>>, "xpath", exploration_xpath(element), 5))

(***************************************************************************)
(* The browser: utils/browser_controller.py and the page it drives.        *)
(* A document is a sequence of elements in document order, each a record   *)
(* [tag, id, name, class, visible].  DomAt gives the document of a URL.    *)
(***************************************************************************)
IdentChars == Letters \cup {"_", "-"}

IsIdent(text) == Len(text) > 0 /\ \A k \in 1..Len(text) : text[k] \in IdentChars

\* The value of a JavaScript double-quoted string literal whose body is sel,
\* as the script of verify_locator embeds it: a backslash escapes the next
\* character; a raw double quote, a raw line break or a trailing backslash
\* makes the script a syntax error.
RECURSIVE JsUnescape(_, _)
JsUnescape(sel, i) ==
  LET b == FindChar(sel, {"\\"}, i)
      stop == IF b = 0 THEN Len(sel) ELSE b - 1
      plain == SubSeq(sel, i, stop)
      clean == \A k \in 1..Len(plain) : plain[k] \notin {"\"", "\n"}
      rest == JsUnescape(sel, b + 2)
  IN IF b = 0 THEN [ok |-> clean, value |-> plain]
     ELSE IF b = Len(sel) THEN [ok |-> FALSE, value |-> plain]
     ELSE [ok |-> clean /\ rest.ok, value |-> plain \o <<sel[b + 1]>> \o rest.value]

\* the elements of document doc that CSS selector sel matches, in document order;
\* the selector forms are #id, .class, [name=value] and a bare tag
css_matches(doc, sel) ==
  LET body == SubSeq(sel, 2, Len(sel))
      nm == SubSeq(sel, 7, Len(sel) - 1)
  IN IF Len(sel) > 1 /\ sel[1] = "#" /\ IsIdent(body)
       THEN SelectSeq(doc, LAMBDA el : el.id = body)
     ELSE IF Len(sel) > 1 /\ sel[1] = "." /\ IsIdent(body)
       THEN SelectSeq(doc, LAMBDA el : body \in TokensFrom(el.class, 1))
     ELSE IF StartsAt(sel, <<"[","n","a","m","e","=">>, 1) /\ sel[Len(sel)] = "]" /\ IsIdent(nm)
       THEN SelectSeq(doc, LAMBDA el : el.name = nm)
     ELSE SelectSeq(doc, LAMBDA el : el.tag = sel)

\* sel is a selector document.querySelector accepts
css_valid(sel) ==
  \/ Len(sel) > 1 /\ sel[1] \in {"#", "."} /\ IsIdent(SubSeq(sel, 2, Len(sel)))
  \/ /\ StartsAt(sel, <<"[","n","a","m","e","=">>, 1)
     /\ sel[Len(sel)] = "]"
     /\ IsIdent(SubSeq(sel, 7, Len(sel) - 1))
  \/ IsIdent(sel)

\* BrowserController.execute_script applied to the check script of verify_locator
\* with clean_selector embedded: what page.evaluate returns or raises.
\*   session = "dead": the page or session is gone, evaluate raises;
\*   the script does not parse: evaluate raises;
\*   querySelector throws on an invalid selector: the script catches it and
\*   returns found: false with the error message.
\* document.querySelector(selector) inside the script's try block, hits being
\* the elements the selector matches: the object the script returns
query_selector(hits) ==
  IF hits = <<>>
    THEN [raised |-> FALSE, found |-> FALSE, visible |-> FALSE, error |-> ""]
  ELSE [raised |-> FALSE, found |-> TRUE, visible |-> hits[1].visible, error |-> ""]

\* page.evaluate of the check script whose selector literal is js
evaluate(session, doc, js) ==
  IF session = "dead"
    THEN [raised |-> TRUE, found |-> FALSE, visible |-> FALSE, error |-> "Target closed"]
  ELSE IF ~js.ok
    THEN [raised |-> TRUE, found |-> FALSE, visible |-> FALSE, error |-> "SyntaxError"]
  ELSE IF ~css_valid(js.value)
    THEN [raised |-> FALSE, found |-> FALSE, visible |-> FALSE, error |-> "not a valid selector"]
  ELSE query_selector(css_matches(doc, js.value))

execute_script(session, doc, clean_selector) ==
  evaluate(session, doc, JsUnescape(clean_selector, 1))

\* URLs: "app" is the explored page, "blank" a freshly launched page, "" no URL
DomAt(url, appDom) == IF url = "app" THEN appDom ELSE <<>>

\* BrowserController.navigate: page.goto; an exception of goto (no URL, dead
\* session) is caught inside navigate and the page stays where it is.
\* The URL the page shows afterwards.
navigate(session, url, target) ==
  IF session = "dead" \/ target = "" THEN url ELSE target

(***************************************************************************)
(* utils/code_verifier.py: CodeVerifier.                                   *)
(***************************************************************************)
\* re.search(name + r'\(["\']([^"\']+)["\']\)', code) from position i, where
\* prefix is name followed by "(": the group of the leftmost match, <<>> if none.
\* The group is the longest run of non-quote characters after the opening
\* quote; it must be non-empty and be followed by a quote and ")".
RECURSIVE search_quoted_arg(_, _, _)
search_quoted_arg(code, prefix, i) ==
  LET p == Find(code, prefix, i)
      q == p + Len(prefix)
      e == FindChar(code, Quotes, q + 1)
  IN IF p = 0 THEN <<>>
     ELSE IF /\ q <= Len(code) /\ code[q] \in Quotes
             /\ e > q + 1
             /\ e + 1 <= Len(code) /\ code[e + 1] = ")"
       THEN SubSeq(code, q + 1, e - 1)
     ELSE search_quoted_arg(code, prefix, p + 1)

\* _extract_selector_from_code: the selector text handed to the check script,
\* <<>> for None.  locator("..."), then get_by_text, then get_by_label.
_extract_selector_from_code(locator_code) ==
  LET loc == search_quoted_arg(locator_code, T_locator, 1)
      txt == search_quoted_arg(locator_code, T_get_by_text \o <<"(">>, 1)
      lab == search_quoted_arg(locator_code, T_get_by_label \o <<"(">>, 1)
  IN IF loc # <<>> THEN Q \o loc \o Q
     ELSE IF txt # <<>> THEN Q \o T_contains_text \o BSQ \o txt \o BSQ \o <<")","]">> \o Q
     ELSE IF lab # <<>> THEN Q \o T_label_a \o BSQ \o lab \o BSQ \o T_label_b \o BSQ \o lab \o BSQ \o <<"]">> \o Q
     ELSE <<>>

\* re.findall(r'page\.locator\([^)]+\)', code) from position i: the prefix, one
\* or more characters other than ")", then ")"; matches do not overlap
RECURSIVE findall_page_locator(_, _)
findall_page_locator(code, i) ==
  LET p == Find(code, T_page_locator, i)
      a == p + Len(T_page_locator)
      e == FindChar(code, {")"}, a)
  IN IF p = 0 THEN <<>>
     ELSE IF e > a
       THEN <<SubSeq(code, p, e)>> \o findall_page_locator(code, e + 1)
     ELSE findall_page_locator(code, p + 1)

\* re.findall(r'page\.get_by_\w+\([^)]+\)', code) from position i
RECURSIVE findall_page_get_by(_, _)
findall_page_get_by(code, i) ==
  LET p == Find(code, T_page_get_by, i)
      w == p + Len(T_page_get_by)
      o == SkipChars(code, WordChars, w)
      e == FindChar(code, {")"}, o + 1)
  IN IF p = 0 THEN <<>>
     ELSE IF o > w /\ o <= Len(code) /\ code[o] = "(" /\ e > o + 1
       THEN <<SubSeq(code, p, e)>> \o findall_page_get_by(code, e + 1)
     ELSE findall_page_get_by(code, p + 1)

\* _extract_locators_from_code: all page.locator(...) snippets, then all
\* page.get_by_*(...) snippets
_extract_locators_from_code(code) ==
  findall_page_locator(code, 1) \o findall_page_get_by(code, 1)

\* ast.parse(code) succeeds, for the code the model builds (lines of attribute
\* chains and calls with string arguments).  The scan follows Python's
\* tokenizer: string literals with backslash escapes that end at their own
\* quote and may not span a line, comments from "#" to the end of the line,
\* balanced brackets, no backslash outside a string; and the grammar's rule
\* that a name, a string and a closing bracket are not juxtaposed (two string
\* literals are: implicit concatenation).
\*   prev: what the last token was: "none", "name", "string" or "close"
\* the character at position k of code is escaped: an odd number of
\* backslashes stands right before it
py_escaped(code, k) == (k - 1 - SkipCharsBack(code, {"\\"}, k - 1)) % 2 = 1

\* the position of the quote that closes the string literal opened at position
\* open, 0 when the literal is not closed before its line ends
py_string_end(code, open) ==
  LET close == {k \in (open + 1)..Len(code) : code[k] = code[open] /\ ~py_escaped(code, k)}
      e == MinOf(close)
  IN IF close = {} THEN 0
     ELSE IF \E k \in (open + 1)..e : code[k] = "\n" /\ ~py_escaped(code, k) THEN 0
     ELSE e

\* scan proceeds token by token from position i
RECURSIVE py_scan(_, _, _, _)
py_scan(code, i, depth, prev) ==
  IF i > Len(code) THEN depth = 0
  ELSE LET c == code[i] IN
    IF c \in Quotes THEN
      LET e == py_string_end(code, i)
      IN prev \notin {"name", "close"} /\ e # 0 /\ py_scan(code, e + 1, depth, "string")
    ELSE IF c \in WordChars THEN
      /\ prev \notin {"string", "close"}
      /\ py_scan(code, SkipChars(code, WordChars, i), depth, "name")
    ELSE IF c \in {"(", "["} THEN py_scan(code, i + 1, depth + 1, "none")
    ELSE IF c \in {")", "]"} THEN depth > 0 /\ py_scan(code, i + 1, depth - 1, "close")
    ELSE IF c = "#" THEN
      LET nl == FindChar(code, {"\n"}, i)
      IN IF nl = 0 THEN depth = 0 ELSE py_scan(code, nl, depth, prev)
    ELSE IF c = "\\" THEN FALSE
    ELSE IF c = "\n" THEN py_scan(code, i + 1, depth, IF depth = 0 THEN "none" ELSE prev)
    ELSE IF c = " " THEN py_scan(code, i + 1, depth, prev)
    ELSE py_scan(code, i + 1, depth, "none")

\* verify_code_syntax: the status of the syntax check
verify_code_syntax(code) ==
  IF py_scan(code, 1, 0, "none") THEN "success" ELSE "error"

\* query_except without its except clause: lets the exception of the query leave verify_locator
query_except_missing(e) ==
  [raises |-> TRUE,
   result |-> [status |-> "error", found |-> "absent", visible |-> FALSE, confidence |-> "absent",
               error |-> e, suggestion |-> ""]]

\* the except handler of verify_locator around the query: the exception becomes
\* an error result
query_except(e) ==
  [raises |-> FALSE,
   result |-> [status |-> "error", found |-> "absent", visible |-> FALSE, confidence |-> "absent",
               error |-> e, suggestion |-> "Locator syntax may be invalid"]]

\* not_found_result without result.get('error'): forgets the error the script reported
not_found_result_without_error(error) ==
  [status |-> "error", found |-> "false", visible |-> FALSE, confidence |-> "absent",
   error |-> "Element not found",
   suggestion |-> "Try alternative locator strategy or verify element exists"]

\* the result of verify_locator when the script reports found: false; error is
\* the error the script caught, "" when it caught none
\* (result.get("error", "Element not found"))
not_found_result(error) ==
  [status |-> "error", found |-> "false", visible |-> FALSE, confidence |-> "absent",
   error |-> IF error = "" THEN "Element not found" ELSE error,
   suggestion |-> "Try alternative locator strategy or verify element exists"]

\* verify_locator for a verifier whose browser has a page: the result of checking
\* locator_code against document doc (the page was navigated before).
\* raises is TRUE when an exception leaves verify_locator.
\* query_result with the confidence of every found element high
query_result_always_high(result) ==
  IF result.raised THEN query_except(result.error)
  ELSE IF result.found
    THEN [raises |-> FALSE,
          result |-> [status |-> "success", found |-> "true", visible |-> result.visible,
                      confidence |-> "high", error |-> "", suggestion |-> ""]]
  ELSE [raises |-> FALSE, result |-> not_found_result(result.error)]

\* the inner try block of verify_locator: the verification result made of
\* result, what execute_script returned or raised
query_result(result) ==
  IF result.raised THEN query_except(result.error)
  ELSE IF result.found
    THEN [raises |-> FALSE,
          result |-> [status |-> "success", found |-> "true", visible |-> result.visible,
                      confidence |-> IF result.visible THEN "high" ELSE "medium",
                      error |-> "", suggestion |-> ""]]
  ELSE [raises |-> FALSE, result |-> not_found_result(result.error)]

\* verify_locator once the selector is extracted (<<>> for None)
verify_selector(session, doc, selector) ==
  IF selector = <<>>
    THEN [raises |-> FALSE,
          result |-> [status |-> "error", found |-> "absent", visible |-> FALSE, confidence |-> "absent",
                      error |-> "Could not extract selector from locator code",
                      suggestion |-> "Use standard Playwright locator syntax"]]
  ELSE query_result(execute_script(session, doc, str_strip(selector, Quotes)))

verify_locator(session, doc, locator_code) ==
  verify_selector(session, doc, _extract_selector_from_code(locator_code))

\* the loop of verify_test_code over the extracted locators, from the k-th on.
\* Every iteration whose browser has a page calls verify_locator, which first
\* navigates when the page does not show page_url, then queries the document.
\*   acc: [checks, issues, queries, navigations, url, raises]
\* the start of verify_locator's try block: the page navigates when it does
\* not show page_url; the URL it shows afterwards
navigate_if_needed(session, current_url, page_url) ==
  IF current_url # page_url THEN navigate(session, current_url, page_url) ELSE current_url

\* one iteration of that loop: the check v of locator is appended, an
\* issue is counted when it failed; url2 is the URL the page shows afterwards,
\* queried tells that the document was queried
record_check(acc, locator, page_url, v, url2, queried) ==
  [checks |-> Append(acc.checks, [locator |-> locator, result |-> v.result]),
   issues |-> acc.issues + (IF v.result.status # "success" THEN 1 ELSE 0),
   queries |-> acc.queries + (IF queried THEN 1 ELSE 0),
   navigations |-> acc.navigations + (IF acc.url # page_url THEN 1 ELSE 0),
   url |-> url2,
   raises |-> v.raises]

RECURSIVE verify_locators_from(_, _, _, _, _, _, _)
verify_locators_from(browser, session, appDom, page_url, locators, k, acc) ==
  IF k > Len(locators) \/ acc.raises THEN acc
  ELSE IF browser # "live"
    THEN verify_locators_from(browser, session, appDom, page_url, locators, k + 1, acc)
  ELSE verify_locators_from(browser, session, appDom, page_url, locators, k + 1,
         record_check(acc, locators[k], page_url,
           verify_locator(session, DomAt(navigate_if_needed(session, acc.url, page_url), appDom),
                          locators[k]),
           navigate_if_needed(session, acc.url, page_url),
           _extract_selector_from_code(locators[k]) # <<>>))

\* verify_test_code: syntax check, then every extracted locator, then the
\* overall status from the number of issues against the number of locators.
\* browser is "unlaunched" (no page) or "live"; url is the URL the page shows.
\* step 3 of verify_test_code: the results once the locators are verified
overall_results(syntax, locators, acc) ==
  [syntax_check |-> syntax, locator_checks |-> acc.checks,
   overall_status |-> IF acc.issues = 0 THEN "success"
                      ELSE IF acc.issues < Len(locators) THEN "partial"
                      ELSE "error",
   issues |-> acc.issues, locators |-> Len(locators), queries |-> acc.queries,
   navigations |-> acc.navigations, url |-> acc.url, raises |-> acc.raises]

\* step 2 of verify_test_code over the extracted locators
verify_locators(browser, session, appDom, url, page_url, syntax, locators) ==
  overall_results(syntax, locators,
    verify_locators_from(browser, session, appDom, page_url, locators, 1,
      [checks |-> <<>>, issues |-> 0, queries |-> 0, navigations |-> 0,
       url |-> url, raises |-> FALSE]))

verify_test_code(browser, session, appDom, url, test_code, page_url) ==
  IF verify_code_syntax(test_code) # "success"
    THEN [syntax_check |-> "error", locator_checks |-> <<>>, overall_status |-> "error",
          issues |-> 1, locators |-> 0, queries |-> 0, navigations |-> 0, url |-> url,
          raises |-> FALSE]
  ELSE verify_locators(browser, session, appDom, url, page_url, "success",
         _extract_locators_from_code(test_code))

\* the strategy auto_correct_locator reads off the failed locator, "" for None
failed_strategy(failed_locator) ==
  IF Contains(failed_locator, T_get_by_text) THEN "text"
  ELSE IF Contains(failed_locator, T_get_by_label) THEN "semantic"
  ELSE IF Contains(failed_locator, T_locator \o Q \o <<"#">>) THEN "id"
  ELSE IF Contains(failed_locator, T_locator \o Q \o <<"[","n","a","m","e","=">>) THEN "name"
  ELSE IF Contains(failed_locator, T_locator \o Q \o <<".">>) THEN "css"
  ELSE IF Contains(failed_locator, T_locator \o Q \o <<"/","/">>) THEN "xpath"
  ELSE ""

\* auto_correct_locator: the code of the first candidate of the element whose
\* strategy is not the failed one; without a failed strategy or such a
\* candidate, the code of the first candidate; <<>> for None
\* the answer of auto_correct_locator: others are the candidates whose
\* strategy is not the failed one fs
next_best_locator(all_locators, fs, others) ==
  IF fs # "" /\ others # <<>> THEN others[1].playwright_code
  ELSE IF all_locators # <<>> THEN all_locators[1].playwright_code
  ELSE <<>>

\* the search for the next best locator among all_locators
other_strategies(all_locators, fs) ==
  next_best_locator(all_locators, fs, SelectSeq(all_locators, LAMBDA l : l.strategy # fs))

auto_correct_locator(failed_locator, element_data) ==
  other_strategies(_generate_locators(element_data), failed_strategy(failed_locator))

(***************************************************************************)
(* agents/implementation_agent.py: ImplementationAgent.                    *)
(* Element indices are positions in interactive_elements counted from 1;   *)
(* 0 stands for None.                                                      *)
(***************************************************************************)
\* _find_element_index_for_locator: the first related element whose "#id" or
\* whose name occurs in the locator code
RECURSIVE _find_element_index_for_locator(_, _, _, _)
_find_element_index_for_locator(locator_code, element_indices, elements, k) ==
  IF k > Len(element_indices) THEN 0
  ELSE LET idx == element_indices[k] IN
    IF idx <= Len(elements)
       /\ \/ elements[idx].id # <<>> /\ Contains(locator_code, <<"#">> \o elements[idx].id)
          \/ elements[idx].name # <<>> /\ Contains(locator_code, elements[idx].name)
      THEN idx
    ELSE _find_element_index_for_locator(locator_code, element_indices, elements, k + 1)

\* corrected_code.replace(failed_locator, corrected_locator)
apply_correction(corrected_code, failed_locator, corrected_locator) ==
  str_replace(corrected_code, failed_locator, corrected_locator)

\* the inner loop of one correction pass over verification.locator_checks,
\* from the k-th check on.
\*   st: [code, attempts, records, raises]; records lists every substitution
\*   with the error of the failed check and the code before and after it
\* the substitution of corrected_locator for failed_locator, counted and
\* recorded; after is the code it leaves
substitute(check, element_idx, corrected_locator, pass, st, after) ==
  [code |-> after,
   attempts |-> st.attempts + 1,
   records |-> Append(st.records,
                 [originalLiteral |-> check.locator,
                  replacementLiteral |-> corrected_locator,
                  elementIndex |-> element_idx,
                  attemptNumber |-> pass,
                  failure |-> check.result.error,
                  before |-> st.code,
                  after |-> after]),
   raises |-> FALSE]

\* the body of the inner loop once auto_correct_locator has answered
\* (<<>> for None or an empty code)
correct_with(check, element_idx, corrected_locator, pass, st) ==
  IF corrected_locator = <<>> THEN st
  ELSE substitute(check, element_idx, corrected_locator, pass, st,
         apply_correction(st.code, check.locator, corrected_locator))

\* the body of the inner loop for one check, element_idx being the answer of
\* _find_element_index_for_locator; an IndexError of _generate_xpath leaves the
\* loop
correct_check(check, elements, pass, st, element_idx) ==
  IF check.result.status = "success" \/ element_idx = 0 THEN st
  ELSE IF _generate_xpath_raises(elements[element_idx]) THEN [st EXCEPT !.raises = TRUE]
  ELSE correct_with(check, element_idx,
         auto_correct_locator(check.locator, elements[element_idx]), pass, st)

RECURSIVE correct_checks_from(_, _, _, _, _, _)
correct_checks_from(checks, k, elements, related_elements, pass, st) ==
  IF k > Len(checks) \/ st.raises THEN st
  ELSE correct_checks_from(checks, k + 1, elements, related_elements, pass,
         correct_check(checks[k], elements, pass, st,
           _find_element_index_for_locator(checks[k].locator, related_elements, elements, 1)))

\* the loop goes on whatever the verification says
loop_never_breaks(overall_status) == FALSE

\* if verification["overall_status"] == "success": break
loop_breaks(overall_status) == overall_status = "success"

\* range(max_corrections + 1): runs one pass too many
range_has_next_off_by_one(n) == n <= max_corrections

\* for attempt in range(max_corrections): there is another pass to run
range_has_next(n) == n < max_corrections

\* the header _combine_test_code puts before the tests
T_header ==
  <<"'","'","'","\n",
    "G","e","n","e","r","a","t","e","d"," ","T","e","s","t"," ","C","o","d","e"," ","-"," ","P","l","a","y","w","r","i","g","h","t"," ","+"," ","P","y","t","h","o","n","\n",
    "G","e","n","e","r","a","t","e","d"," ","b","y"," ","W","e","b","-","B","a","s","e","d"," ","T","e","s","t","i","n","g"," ","A","g","e","n","t","\n",
    "'","'","'","\n",
    "\n",
    "f","r","o","m"," ","p","l","a","y","w","r","i","g","h","t",".","s","y","n","c","_","a","p","i"," ","i","m","p","o","r","t"," ","s","y","n","c","_","p","l","a","y","w","r","i","g","h","t","\n",
    "i","m","p","o","r","t"," ","p","y","t","e","s","t","\n",
    "\n">>

\* "\n\n".join(test_codes)
RECURSIVE join_tests(_)
join_tests(test_codes) ==
  IF test_codes = <<>> THEN <<>>
  ELSE IF Len(test_codes) = 1 THEN test_codes[1]
  ELSE test_codes[1] \o <<"\n", "\n">> \o join_tests(Tail(test_codes))

\* _combine_test_code: the header, then the tests joined by a blank line
_combine_test_code(test_codes) == T_header \o join_tests(test_codes)

\* what generate_test_code hands on: the combined test_code and the
\* individual_tests
handed_on(generated) ==
  [test_code |-> _combine_test_code(generated), individual_tests |-> generated]

\* the status _verify_and_correct_code returns after the correction loop
final_status(overall_status) == IF overall_status = "success" THEN "success" ELSE "partial"

(***************************************************************************)
(* State.                                                                  *)
(***************************************************************************)
VARIABLES
  pc,                   \* "start", "loop", "done": where generate_test_code is with this test;
                        \* "explored", "generated", "selected": where locator selection is
  browser,              \* "none": the agent has no browser, hence no verifier;
                        \* "unlaunched": a BrowserController without a page; "live"
  session,              \* "ok", or "dead": the page's session is gone and evaluate raises
  url,                  \* the URL the page shows
  page_url,             \* test_plan's page_url handed to the verifier
  appDom,               \* the live document of the explored page
  elements,             \* exploration_data["interactive_elements"]
  related_elements,     \* test_case["related_elements"]
  test_code,            \* the generated artifact
  verification,         \* the latest result of verify_test_code
  corrected_code,       \* the artifact under correction
  correction_attempts,  \* the counter of substitutions
  attempt,              \* correction passes run so far
  status,               \* the status of the verification result handed back, "" before
  corrections,          \* every substitution performed, in order
  reverifications,      \* calls of verify_test_code after the initial one
  queries,              \* document queries issued (execute_script calls)
  raised,               \* an exception left the verifier or the correction loop
  generated_tests,      \* the test codes generate_test_code hands on (individual_tests)
  suggested_locators,   \* the element's suggested_locators from exploration
  locators,             \* what _generate_locators returned for the element
  best,                 \* what select_best_locator returned for the element
  test_plan,            \* test_plan["test_cases"]: [id, generation, code] for each case,
                        \* generation being the status of the model's response for it
                        \* and code the test code of a successful response
  test_case_ids,        \* the ids asked for; <<>> for None or an empty list
  test_cases,           \* the selected test cases
  current,              \* the position of the loop over test_cases, 0 before it
  verification_results, \* the verification_results of generate_test_code
  result,               \* the status generate_test_code returned, "" before
  execution_log_file,   \* execution_log.json of the executor's output directory
  screenshots_file,     \* screenshots.json of the executor's output directory
  execution_log,        \* TestExecutor.execution_log
  screenshots,          \* TestExecutor.screenshots
  runs,                 \* calls of execute_test_code so far
  execution,            \* what the latest execute_test_code returned
  active_chat,          \* GeminiClient.active_chat: the session and what it was sent
  chat_system_instruction,  \* GeminiClient.chat_system_instruction
  total_requests,       \* GeminiClient.total_requests
  response              \* the status of what the latest chat call returned, "" before

vars == <<pc, browser, session, url, page_url, appDom, elements, related_elements, test_code,
          verification, corrected_code, correction_attempts, attempt, status, corrections,
          reverifications, queries, raised, generated_tests, suggested_locators, locators, best,
          test_plan, test_case_ids, test_cases, current, verification_results, result,
          execution_log_file, screenshots_file, execution_log, screenshots, runs, execution,
          active_chat, chat_system_instruction, total_requests, response>>

\* the state of the implementation agent and of locator selection
implementation ==
  <<pc, browser, session, url, page_url, appDom, elements, related_elements, test_code,
    verification, corrected_code, correction_attempts, attempt, status, corrections,
    reverifications, queries, raised, generated_tests, suggested_locators, locators, best,
    test_plan, test_case_ids, test_cases, current, verification_results, result>>

\* the state of a TestExecutor and of its output directory
executor ==
  <<execution_log_file, screenshots_file, execution_log, screenshots, runs, execution>>

\* the state of a GeminiClient
client == <<active_chat, chat_system_instruction, total_requests, response>>

inputs == <<browser, session, page_url, appDom, elements, related_elements, test_code,
            suggested_locators>>

selection == <<locators, best>>

generation == <<test_plan, test_case_ids, test_cases, current, result>>

(***************************************************************************)
(* Inputs.                                                                 *)
(***************************************************************************)
\* attribute values of discovered elements: plain, with a parenthesis, with a
\* double quote, and one that spells a locator method
IdValues == { <<>>, <<"s">>, <<"s",")","d">>, T_get_by_text \o <<")","d">> }
NameValues == { <<>>, <<"a">> }
ClassValues == { <<>>, <<"c">>, <<"c","\"","d">> }
AriaValues == { <<>>, <<"l">> }

Descriptors ==
  { [tag |-> <<"b","u","t","t","o","n">>, id |-> i, name |-> n, class |-> c,
     ariaLabel |-> a, role |-> <<>>, text |-> <<>>] :
      i \in IdValues, n \in NameValues, c \in ClassValues, a \in AriaValues }

\* the live document holds the discovered element unchanged
Unchanged(d) ==
  << [tag |-> d.tag, id |-> d.id, name |-> d.name, class |-> d.class, visible |-> TRUE] >>

\* the live document holds the discovered element unchanged but without
\* layout size (offsetWidth or offsetHeight 0): found, not visible
Hidden(d) ==
  << [tag |-> d.tag, id |-> d.id, name |-> d.name, class |-> d.class, visible |-> FALSE] >>

\* the live document holds the discovered element, whose id or class may have
\* changed since discovery
Documents(d) ==
  { << [tag |-> d.tag,
        id |-> IF keepId THEN d.id ELSE <<"z">>,
        name |-> d.name,
        class |-> IF keepClass THEN d.class ELSE <<"y">>,
        visible |-> TRUE] >> : keepId \in BOOLEAN, keepClass \in BOOLEAN }

\* a locator call the generated code may hold for an element: the code of its
\* best candidate (the one the generation prompt offers) or of the next one,
\* or a locator of an id the element never had
T_foreign == T_page_locator \o Q \o <<"#","z","z">> \o Q \o <<")">>

Calls(d) ==
  { _generate_locators(d)[k].playwright_code : k \in 1..Min(2, Len(_generate_locators(d))) }
    \cup {T_foreign}

\* the lines of an artifact: each locator call is clicked on a line of its own
RECURSIVE Lines(_)
Lines(calls) ==
  IF calls = <<>> THEN <<>>
  ELSE calls[1] \o T_click \o <<"\n">> \o Lines(Tail(calls))

\* the artifacts of up to MaxCalls locator calls, and each of them cut short by
\* an unclosed bracket, which does not parse
Artifacts(d) ==
  LET seqs == UNION { [1..n -> Calls(d)] : n \in 1..MaxCalls }
  IN { Lines(c) : c \in seqs } \cup { Lines(c) \o <<"(">> : c \in [1..1 -> Calls(d)] }

\* the browser the agent was built with, the state of its session, the URL its
\* page shows and the URL of the test plan
Environments ==
  { [browser |-> "none", session |-> "ok", url |-> "blank", page_url |-> "app"],
    [browser |-> "unlaunched", session |-> "ok", url |-> "blank", page_url |-> "app"],
    [browser |-> "live", session |-> "ok", url |-> "app", page_url |-> "app"],
    [browser |-> "live", session |-> "ok", url |-> "blank", page_url |-> "app"],
    [browser |-> "live", session |-> "ok", url |-> "app", page_url |-> ""],
    [browser |-> "live", session |-> "dead", url |-> "app", page_url |-> "app"] }

NoVerification ==
  [syntax_check |-> "", locator_checks |-> <<>>, overall_status |-> "pending",
   issues |-> 0, locators |-> 0, queries |-> 0, navigations |-> 0, url |-> "", raises |-> FALSE]

NoSelection == [strategy |-> "", value |-> <<>>, confidence |-> "", fallbacks |-> <<>>]

\* a file that does not exist
NoFile == [exists |-> FALSE, entries |-> <<>>]

NoExecution == [status |-> "", run |-> 0, execution_log |-> <<>>, screenshots |-> <<>>]

\* TestExecutor.__init__ on a fresh output directory
ExecutorConstructed ==
  /\ execution_log_file = NoFile
  /\ screenshots_file = NoFile
  /\ execution_log = <<>>
  /\ screenshots = <<>>
  /\ runs = 0
  /\ execution = NoExecution

\* no chat session
NoChat == [open |-> FALSE, history |-> <<>>]

\* GeminiClient.__init__
ClientConstructed ==
  /\ active_chat = NoChat
  /\ chat_system_instruction = "None"
  /\ total_requests = 0
  /\ response = ""

\* no generation, verification or selection is in hand
ImplementationIdle ==
  /\ pc = "idle"
  /\ browser = "none"
  /\ session = "ok"
  /\ url = "blank"
  /\ page_url = ""
  /\ appDom = <<>>
  /\ elements = <<>>
  /\ related_elements = <<>>
  /\ test_code = <<>>
  /\ verification = NoVerification
  /\ corrected_code = <<>>
  /\ correction_attempts = 0
  /\ attempt = 0
  /\ status = ""
  /\ corrections = <<>>
  /\ reverifications = 0
  /\ queries = 0
  /\ raised = FALSE
  /\ generated_tests = <<>>
  /\ suggested_locators = <<>>
  /\ locators = <<>>
  /\ best = NoSelection
  /\ test_plan = <<>>
  /\ test_case_ids = <<>>
  /\ test_cases = <<>>
  /\ current = 0
  /\ verification_results = <<>>
  /\ result = ""

Init ==
  \E d \in Descriptors, env \in Environments :
    /\ elements = <<d>>
    /\ test_code \in Artifacts(d)
    /\ related_elements = <<1>>
    /\ browser = env.browser
    /\ session = env.session
    /\ url = env.url
    /\ page_url = env.page_url
    /\ appDom \in (IF env.browser # "live" \/ env.session # "ok" THEN {<<>>}
                   ELSE IF env.url = env.page_url THEN Documents(d) \cup {Hidden(d)}
                   ELSE {Unchanged(d)})
    /\ pc = "start"
    /\ verification = NoVerification
    /\ corrected_code = test_code
    /\ correction_attempts = 0
    /\ attempt = 0
    /\ status = ""
    /\ corrections = <<>>
    /\ reverifications = 0
    /\ queries = 0
    /\ raised = FALSE
    /\ generated_tests = <<>>
    /\ suggested_locators = <<>>
    /\ locators = <<>>
    /\ best = NoSelection
    /\ test_plan = <<[id |-> "T1", generation |-> "success", code |-> test_code]>>
    /\ test_case_ids = <<>>
    /\ test_cases = test_plan
    /\ current = 1
    /\ verification_results = <<>>
    /\ result = ""
    /\ ExecutorConstructed
    /\ ClientConstructed

(***************************************************************************)
(* Actions.                                                                *)
(***************************************************************************)
\* the entry of verification_results for the test case in hand
verification_result(st) == [test_id |-> test_cases[current].id, status |-> st]

\* generate_test_code, agent without a verifier: the verification is skipped
VerificationSkipped ==
  /\ pc = "start"
  /\ browser = "none"
  /\ generated_tests' = Append(generated_tests, test_code)
  /\ status' = "skipped"
  /\ verification_results' = Append(verification_results, verification_result("skipped"))
  /\ pc' = "done"
  /\ UNCHANGED <<executor, client, inputs, url, verification, corrected_code, correction_attempts, attempt,
                 corrections, reverifications, queries, raised, selection, generation>>

\* _verify_and_correct_code up to the correction loop: the initial verification,
\* and the early return when it succeeds
InitialVerification ==
  /\ pc = "start"
  /\ browser # "none"
  /\ \E v \in {verify_test_code(browser, session, appDom, url, test_code, page_url)} :
        /\ verification' = v
        /\ url' = v.url
        /\ queries' = queries + v.queries
        /\ raised' = v.raises
        /\ IF v.raises
             THEN pc' = "done" /\ status' = "raised" /\ UNCHANGED verification_results
           ELSE IF v.overall_status = "success"
             THEN /\ pc' = "done" /\ status' = "success"
                  /\ verification_results' =
                       Append(verification_results, verification_result("success"))
           ELSE pc' = "loop" /\ status' = "" /\ UNCHANGED verification_results
  /\ generated_tests' = Append(generated_tests, test_code)
  /\ UNCHANGED <<executor, client, inputs, corrected_code, correction_attempts, attempt, corrections,
                 reverifications, selection, generation>>

\* one pass of the correction loop: every failing check is corrected where an
\* element and a replacement are found, then the code is verified again when
\* any correction was ever applied
CorrectionPass ==
  /\ pc = "loop"
  /\ range_has_next(attempt)
  /\ ~loop_breaks(verification.overall_status)
  /\ \E st \in {correct_checks_from(verification.locator_checks, 1, elements, related_elements,
                  attempt + 1,
                  [code |-> corrected_code, attempts |-> correction_attempts,
                   records |-> <<>>, raises |-> FALSE])} :
     \E again \in {st.attempts > 0 /\ ~st.raises} :
     \E v \in {IF again
                 THEN verify_test_code(browser, session, appDom, url, st.code, page_url)
                 ELSE verification} :
        /\ corrected_code' = st.code
        /\ correction_attempts' = st.attempts
        /\ corrections' = corrections \o st.records
        /\ verification' = v
        /\ url' = IF again THEN v.url ELSE url
        /\ queries' = queries + (IF again THEN v.queries ELSE 0)
        /\ reverifications' = reverifications + (IF again THEN 1 ELSE 0)
        /\ raised' = (st.raises \/ v.raises)
        /\ IF st.raises \/ v.raises THEN pc' = "done" /\ status' = "raised"
           ELSE pc' = "loop" /\ status' = ""
  /\ attempt' = attempt + 1
  /\ UNCHANGED <<executor, client, inputs, generated_tests, selection, generation, verification_results>>

\* the loop ends (passes used up, or the verification succeeded) and
\* _verify_and_correct_code returns
ReturnCorrected ==
  /\ pc = "loop"
  /\ ~range_has_next(attempt) \/ loop_breaks(verification.overall_status)
  /\ status' = final_status(verification.overall_status)
  /\ verification_results' =
       Append(verification_results,
              verification_result(final_status(verification.overall_status)))
  /\ pc' = "done"
  /\ UNCHANGED <<executor, client, inputs, url, verification, corrected_code, correction_attempts, attempt,
                 corrections, reverifications, queries, raised, generated_tests, selection,
                 generation>>

Next == VerificationSkipped \/ InitialVerification \/ CorrectionPass \/ ReturnCorrected

Spec == Init /\ [][Next]_vars

(***************************************************************************)
(* Locator selection for one explored element.                             *)
(***************************************************************************)
TextValues ==
  { <<>>, <<"t">>, <<" ","t"," ">>, [k \in 1..(TEXT_LIMIT + 1) |-> "t"] }

\* descriptors of explored elements: every attribute present or missing, a
\* class list of two classes, a class attribute of whitespace only
SelectionDescriptors ==
  { [tag |-> T_button, id |-> i, name |-> n, class |-> c, ariaLabel |-> a, role |-> r,
     text |-> t] :
      i \in {<<>>, <<"s">>}, n \in {<<>>, <<"a">>},
      c \in {<<>>, <<"c">>, <<"c"," ","d">>, <<" ">>},
      a \in {<<>>, <<"l">>, <<"L","a","b","e","l">>},
      r \in {<<>>, T_button},
      t \in TextValues }

\* the suggested_locators an element may carry: none, or those the
\* exploration computed for it
Suggestions(d) ==
  {<<>>} \cup (IF _suggest_locators_raises(d) THEN {} ELSE {_suggest_locators(d)})

SelectionInit ==
  \E d \in SelectionDescriptors :
    /\ elements = <<d>>
    /\ suggested_locators \in Suggestions(d)
    /\ pc = "explored"
    /\ locators = <<>>
    /\ best = NoSelection
    /\ raised = FALSE
    /\ test_code = <<>>
    /\ related_elements = <<>>
    /\ browser = "none"
    /\ session = "ok"
    /\ url = "blank"
    /\ page_url = "app"
    /\ appDom = <<>>
    /\ verification = NoVerification
    /\ corrected_code = <<>>
    /\ correction_attempts = 0
    /\ attempt = 0
    /\ status = ""
    /\ corrections = <<>>
    /\ reverifications = 0
    /\ queries = 0
    /\ generated_tests = <<>>
    /\ test_plan = <<>>
    /\ test_case_ids = <<>>
    /\ test_cases = <<>>
    /\ current = 0
    /\ verification_results = <<>>
    /\ result = ""
    /\ ExecutorConstructed
    /\ ClientConstructed

\* what the selection steps leave alone
resolution ==
  <<browser, session, url, page_url, appDom, elements, related_elements, test_code,
    suggested_locators, verification, corrected_code, correction_attempts, attempt, status,
    corrections, reverifications, queries, generated_tests, generation, verification_results>>

\* LocatorSelector._generate_locators(element)
GenerateLocators ==
  /\ pc = "explored"
  /\ IF _generate_xpath_raises(elements[1])
       THEN locators' = <<>> /\ raised' = TRUE
       ELSE locators' = _generate_locators(elements[1]) /\ raised' = FALSE
  /\ pc' = "generated"
  /\ UNCHANGED <<executor, client, resolution, best>>

\* LocatorSelector.select_best_locator(element)
SelectBestLocator ==
  /\ pc = "generated"
  /\ IF suggested_locators = <<>> /\ _generate_xpath_raises(elements[1])
       THEN best' = NoSelection /\ raised' = TRUE
       ELSE best' = select_best_locator(elements[1], suggested_locators) /\ raised' = FALSE
  /\ pc' = "selected"
  /\ UNCHANGED <<executor, client, resolution, locators>>

SelectionNext == GenerateLocators \/ SelectBestLocator

SelectionSpec == SelectionInit /\ [][SelectionNext]_vars

(***************************************************************************)
(* Verification and correction of a test that relates to two elements.     *)
(***************************************************************************)
\* descriptors of two explored elements of one page: ids of which one is a
\* prefix of the other, names that do or do not occur in a locator call
PairDescriptors ==
  { [tag |-> T_button, id |-> i, name |-> n, class |-> c, ariaLabel |-> <<>>,
     role |-> <<>>, text |-> <<>>] :
      i \in {<<>>, <<"s">>, <<"s","d">>}, n \in {<<>>, <<"n">>, <<"a">>},
      c \in {<<>>, <<"c">>} }

\* the live document holds the discovered element with another id and class
Stale(d) ==
  << [tag |-> d.tag, id |-> <<"z">>, name |-> d.name, class |-> <<"y">>, visible |-> TRUE] >>

\* a test of one locator call, the call being the best candidate of either
\* element, its related_elements naming both elements in either order
PairInit ==
  \E d1 \in PairDescriptors, d2 \in PairDescriptors, env \in Environments :
    /\ elements = <<d1, d2>>
    /\ related_elements \in {<<1, 2>>, <<2, 1>>}
    /\ test_code \in { Lines(<<_generate_locators(d)[1].playwright_code>>) : d \in {d1, d2} }
    /\ browser = env.browser
    /\ session = env.session
    /\ url = env.url
    /\ page_url = env.page_url
    /\ \/ env.browser = "none"
       \/ env.browser = "live" /\ env.session = "ok" /\ env.url = env.page_url
    /\ appDom \in (IF env.browser # "live" THEN {<<>>}
                   ELSE {Unchanged(d1) \o Unchanged(d2), Stale(d1) \o Stale(d2)})
    /\ pc = "start"
    /\ verification = NoVerification
    /\ corrected_code = test_code
    /\ correction_attempts = 0
    /\ attempt = 0
    /\ status = ""
    /\ corrections = <<>>
    /\ reverifications = 0
    /\ queries = 0
    /\ raised = FALSE
    /\ generated_tests = <<>>
    /\ suggested_locators = <<>>
    /\ locators = <<>>
    /\ best = NoSelection
    /\ test_plan = <<[id |-> "T1", generation |-> "success", code |-> test_code]>>
    /\ test_case_ids = <<>>
    /\ test_cases = test_plan
    /\ current = 1
    /\ verification_results = <<>>
    /\ result = ""
    /\ ExecutorConstructed
    /\ ClientConstructed

PairSpec == PairInit /\ [][Next]_vars

(***************************************************************************)
(* generate_test_code over the test cases of a plan.                       *)
(***************************************************************************)
\* the filter by test_case_ids: every case when no ids are given
selected_test_cases(plan, ids) ==
  IF ids = <<>> THEN plan
  ELSE SelectSeq(plan, LAMBDA tc : tc.id \in { ids[k] : k \in 1..Len(ids) })

\* the error result is left out
record_generation_error_dropped(results, test_case) == results

\* the verification result of a test case whose generation failed
record_generation_error(results, test_case) ==
  Append(results, [test_id |-> test_case.id, status |-> "error"])

\* the explored element of the plan's page
PlanDescriptors ==
  { [tag |-> T_button, id |-> <<"s">>, name |-> n, class |-> c, ariaLabel |-> <<>>,
     role |-> <<>>, text |-> <<>>] : n \in {<<>>, <<"a">>}, c \in {<<>>, <<"c">>} }

\* what the model's response gives for one test case: an error, or test code
\* of one locator call
Responses(d) ==
  {[generation |-> "error", code |-> <<>>]}
    \cup { [generation |-> "success", code |-> Lines(<<call>>)] : call \in Calls(d) }

\* the plans of up to MaxTests test cases, the k-th case having id k
Plans(d) ==
  UNION { { [k \in 1..n |-> [id |-> k, generation |-> r[k].generation, code |-> r[k].code]] :
              r \in [1..n -> Responses(d)] } : n \in 0..MaxTests }

GenerationInit ==
  \E d \in PlanDescriptors :
    /\ elements = <<d>>
    /\ related_elements = <<1>>
    /\ test_plan \in Plans(d)
    /\ test_case_ids \in {<<>>, <<1>>, <<2>>, <<0>>}
    /\ \E env \in { [browser |-> "none", doc |-> <<>>],
                    [browser |-> "live", doc |-> Unchanged(d)],
                    [browser |-> "live", doc |-> Stale(d)] } :
         browser = env.browser /\ appDom = env.doc
    /\ session = "ok"
    /\ url = "app"
    /\ page_url = "app"
    /\ pc = "called"
    /\ test_cases = <<>>
    /\ current = 0
    /\ verification_results = <<>>
    /\ result = ""
    /\ ExecutorConstructed
    /\ ClientConstructed
    /\ test_code = <<>>
    /\ verification = NoVerification
    /\ corrected_code = <<>>
    /\ correction_attempts = 0
    /\ attempt = 0
    /\ status = ""
    /\ corrections = <<>>
    /\ reverifications = 0
    /\ queries = 0
    /\ raised = FALSE
    /\ generated_tests = <<>>
    /\ suggested_locators = <<>>
    /\ locators = <<>>
    /\ best = NoSelection

\* what the loop over the test cases leaves alone
page == <<browser, session, page_url, appDom, elements, related_elements, suggested_locators>>

\* generate_test_code up to its loop: the test cases are filtered, and the
\* call returns an error when none is left
SelectTestCases ==
  /\ pc = "called"
  /\ test_cases' = selected_test_cases(test_plan, test_case_ids)
  /\ IF selected_test_cases(test_plan, test_case_ids) = <<>>
       THEN pc' = "returned" /\ result' = "error"
       ELSE pc' = "next" /\ result' = ""
  /\ UNCHANGED <<executor, client, page, url, test_code, verification, corrected_code, correction_attempts,
                 attempt, status, corrections, reverifications, queries, raised,
                 generated_tests, selection, test_plan, test_case_ids, current,
                 verification_results>>

\* the loop takes the next test case and its generation fails
GenerationFailed ==
  /\ pc \in {"next", "done"} /\ ~raised /\ result = ""
  /\ current < Len(test_cases)
  /\ test_cases[current + 1].generation # "success"
  /\ current' = current + 1
  /\ verification_results' = record_generation_error(verification_results, test_cases[current + 1])
  /\ pc' = "next"
  /\ UNCHANGED <<executor, client, page, url, test_code, verification, corrected_code, correction_attempts,
                 attempt, status, corrections, reverifications, queries, raised,
                 generated_tests, selection, test_plan, test_case_ids, test_cases, result>>

\* the loop takes the next test case and its generation succeeds: the code
\* goes on to VerificationSkipped or InitialVerification
GenerationSucceeded ==
  /\ pc \in {"next", "done"} /\ ~raised /\ result = ""
  /\ current < Len(test_cases)
  /\ test_cases[current + 1].generation = "success"
  /\ current' = current + 1
  /\ test_code' = test_cases[current + 1].code
  /\ corrected_code' = test_cases[current + 1].code
  /\ verification' = NoVerification
  /\ correction_attempts' = 0
  /\ attempt' = 0
  /\ status' = ""
  /\ corrections' = <<>>
  /\ reverifications' = 0
  /\ queries' = 0
  /\ pc' = "start"
  /\ UNCHANGED <<executor, client, page, url, raised, generated_tests, selection, test_plan, test_case_ids,
                 test_cases, result, verification_results>>

\* the loop is over and generate_test_code returns its result
ReturnGenerated ==
  /\ pc \in {"next", "done"} /\ ~raised /\ result = ""
  /\ current = Len(test_cases)
  /\ result' = "success"
  /\ pc' = "returned"
  /\ UNCHANGED <<executor, client, page, url, test_code, verification, corrected_code, correction_attempts,
                 attempt, status, corrections, reverifications, queries, raised,
                 generated_tests, selection, test_plan, test_case_ids, test_cases, current,
                 verification_results>>

GenerationNext ==
  \/ SelectTestCases \/ GenerationFailed \/ GenerationSucceeded
  \/ VerificationSkipped \/ InitialVerification \/ CorrectionPass \/ ReturnCorrected
  \/ ReturnGenerated

GenerationSpec == GenerationInit /\ [][GenerationNext]_vars

(***************************************************************************)
(* utils/test_executor.py: runs of one TestExecutor on its output          *)
(* directory.  An entry of a log or of the screenshots carries the run     *)
(* that produced it.                                                       *)
(***************************************************************************)
\* what a test does when the wrapper script calls it: it logs steps, captures
\* screenshots, and passes or fails (an assertion or another exception)
Tests == [steps : 0..MaxSteps, shots : 0..MaxShots, passes : BOOLEAN]

\* the entries n calls of log_step or capture_screenshot collect in a run
collected(run, n) == [k \in 1..n |-> [run |-> run, entry |-> k]]

\* json.dump to a file
json_dump(entries) == [exists |-> TRUE, entries |-> entries]

\* the wrapper script of _create_wrapper_script run as a process: the two
\* JSON files are written after the test function has returned, and not when
\* it raised
wrapper_script(run, test, log_file, shots_file) ==
  IF test.passes
    THEN [exit_code |-> 0,
          log_file |-> json_dump(collected(run, test.steps)),
          shots_file |-> json_dump(collected(run, test.shots))]
  ELSE [exit_code |-> 1, log_file |-> log_file, shots_file |-> shots_file]

\* "if file.exists(): json.load" of _run_test, field being the attribute it
\* assigns
load_if_exists(file, field) == IF file.exists THEN file.entries ELSE field

\* _run_test after the process has ended with w
parse_evidence(w, log, shots) ==
  [exit_code |-> w.exit_code, log_file |-> w.log_file, shots_file |-> w.shots_file,
   execution_log |-> load_if_exists(w.log_file, log),
   screenshots |-> load_if_exists(w.shots_file, shots)]

\* _run_test: popen = "raises" when the process cannot be started
_run_test(run, test, popen, log_file, shots_file, log, shots) ==
  IF popen = "raises"
    THEN [exit_code |-> 1, log_file |-> log_file, shots_file |-> shots_file,
          execution_log |-> log, screenshots |-> shots]
  ELSE parse_evidence(wrapper_script(run, test, log_file, shots_file), log, shots)

\* the dict execute_test_code returns for what _run_test gave
execution_result(run, r) ==
  [status |-> IF r.exit_code = 0 THEN "success" ELSE "failed",
   run |-> run, execution_log |-> r.execution_log, screenshots |-> r.screenshots]

\* execute_test_code: the attributes are reset, the test is run, the evidence
\* read back and returned
ExecuteTestCode ==
  /\ runs < MaxRuns
  /\ \E test \in Tests, popen \in {"ok", "raises"} :
     \E r \in {_run_test(runs + 1, test, popen, execution_log_file, screenshots_file,
                         <<>>, <<>>)} :
        /\ execution_log_file' = r.log_file
        /\ screenshots_file' = r.shots_file
        /\ execution_log' = r.execution_log
        /\ screenshots' = r.screenshots
        /\ execution' = execution_result(runs + 1, r)
  /\ runs' = runs + 1
  /\ UNCHANGED <<implementation, client>>

ExecutorInit == ImplementationIdle /\ ExecutorConstructed /\ ClientConstructed

ExecutorNext == ExecuteTestCode

ExecutorSpec == ExecutorInit /\ [][ExecutorNext]_vars

(***************************************************************************)
(* utils/gemini_client.py: the persistent chat session of one client.      *)
(* A chat session is [open, history], history being the messages delivered *)
(* to it, "system" or "user", in order.                                    *)
(***************************************************************************)
\* what the API does to the calls of one chat(): start_chat and each
\* send_message either succeed or raise (quota, network)
ApiOutcomes == [start : {"ok", "raises"}, system : {"ok", "raises"}, message : {"ok", "raises"}]

\* active_chat.send_message(message) succeeded: the chat_session holds the message
\* and the request is counted
message_sent(chat_session, instruction, kind) ==
  [active_chat |-> [chat_session EXCEPT !.history = Append(@, kind)],
   chat_system_instruction |-> instruction, status |-> "success", counted |-> 1]

\* the except branch of chat: what was assigned before the exception stays
chat_failed(chat_session, instruction) ==
  [active_chat |-> chat_session, chat_system_instruction |-> instruction,
   status |-> "error", counted |-> 0]

\* the message of chat() is sent to the chat_session
send_user_message(chat_session, instruction, api) ==
  IF api.message = "raises" THEN chat_failed(chat_session, instruction)
  ELSE message_sent(chat_session, instruction, "user")

\* chat() with no active chat_session: the chat_session is started and assigned, the
\* instruction is stored, and when one is given it is sent first
open_session(system_instruction, api) ==
  IF api.start = "raises" THEN chat_failed(NoChat, "None")
  ELSE IF system_instruction = "None"
    THEN send_user_message([open |-> TRUE, history |-> <<>>], "None", api)
  ELSE IF api.system = "raises"
    THEN chat_failed([open |-> TRUE, history |-> <<>>], system_instruction)
  ELSE send_user_message([open |-> TRUE, history |-> <<"system">>], system_instruction, api)

\* GeminiClient.chat(message, system_instruction)
chat(chat_session, instruction, system_instruction, api) ==
  IF ~chat_session.open THEN open_session(system_instruction, api)
  ELSE send_user_message(chat_session, instruction, api)

Chat ==
  /\ total_requests < MaxRequests
  /\ Len(active_chat.history) < MaxMessages
  /\ \E system_instruction \in {"None", "instruction"}, api \in ApiOutcomes :
     \E r \in {chat(active_chat, chat_system_instruction, system_instruction, api)} :
        /\ active_chat' = r.active_chat
        /\ chat_system_instruction' = r.chat_system_instruction
        /\ total_requests' = total_requests + r.counted
        /\ response' = r.status
  /\ UNCHANGED <<implementation, executor>>

\* GeminiClient.reset_chat()
ResetChat ==
  /\ active_chat' = NoChat
  /\ chat_system_instruction' = "None"
  /\ UNCHANGED <<total_requests, response, implementation, executor>>

ClientInit == ImplementationIdle /\ ExecutorConstructed /\ ClientConstructed

ClientNext == Chat \/ ResetChat

ClientSpec == ClientInit /\ [][ClientNext]_vars

(***************************************************************************)
(* Properties.                                                             *)
(***************************************************************************)
Range(seq) == { seq[k] : k \in 1..Len(seq) }

\* the document the page shows
LiveDocument == IF browser = "live" /\ session = "ok" THEN DomAt(url, appDom) ELSE <<>>

\* the generated code parses
ArtifactParses == verify_code_syntax(test_code) = "success"

\* C1: the correction loop runs at most max_corrections passes, and the
\* verification is run again at most once per pass, whatever fails
C1_BoundedCorrectionPasses ==
  /\ attempt <= max_corrections
  /\ reverifications <= attempt

\* C1 witness: both passes ran and verified again with several locators failing
C1_Witness ==
  /\ pc = "done"
  /\ attempt = max_corrections
  /\ reverifications = max_corrections
  /\ verification.issues >= 2

\* the candidate of correction record r: the candidate of the record's element
\* whose code is the replacement literal
ReplacementCandidate(r) ==
  LET all == _generate_locators(elements[r.elementIndex])
  IN CHOOSE c \in Range(all) : c.playwright_code = r.replacementLiteral

\* the replacement of correction record r addresses an element of document doc:
\* an element with the candidate's id, name or class, or the element the XPath
\* of _generate_xpath describes
ReplacementPresent(r, doc) ==
  LET c == ReplacementCandidate(r)
      d == elements[r.elementIndex]
  IN \E k \in 1..Len(doc) :
       LET el == doc[k] IN
         \/ c.strategy = "id" /\ el.id = c.value
         \/ c.strategy = "name" /\ el.name = c.value
         \/ c.strategy = "css" /\ SubSeq(c.value, 2, Len(c.value)) \in TokensFrom(el.class, 1)
         \/ /\ c.strategy = "xpath"
            /\ el.tag = d.tag
            /\ IF d.id # <<>> THEN el.id = d.id
               ELSE IF d.name # <<>> THEN el.name = d.name
               ELSE IF d.class # <<>> THEN el.class = first_token(d.class)
               ELSE TRUE

\* C2: once a locator reported as not found has been
\* replaced by a candidate that addresses an element present in the live
\* document, the new verification reports the replacement as found, and a
\* resolution whose only locator was so replaced ends with status success
C2_PresentReplacementVerifies ==
  \A r \in Range(corrections) :
    (r.failure = "Element not found" /\ ReplacementPresent(r, LiveDocument)) =>
      /\ \A c \in Range(verification.locator_checks) :
           c.locator = r.replacementLiteral => c.result.status = "success"
      /\ (pc = "done" /\ Len(corrections) = 1) => status = "success"

\* C3: for an artifact that does not parse the resolver
\* reports error, with no locator checks, no query and no correction
C3_UnparsableReportsError ==
  (pc = "done" /\ browser # "none" /\ ~ArtifactParses) =>
    /\ status = "error"
    /\ verification.locator_checks = <<>>
    /\ queries = 0
    /\ corrections = <<>>

\* C4: without a live document (no browser, or a browser
\* without a page) the result is an error (the agent without a browser marks
\* the verification skipped), never success, and no correction is attempted
C4_UnavailableReportsError ==
  (pc = "done" /\ browser \in {"none", "unlaunched"}) =>
    /\ status \in {"error", "skipped"}
    /\ status # "success"
    /\ correction_attempts = 0

\* C5: for an artifact that parses, the final status is
\* success iff every check passes at the end, partial iff a correction was applied and a check still
\* fails, error iff a check fails and no correction could be attempted
C5_FinalStatus ==
  (pc = "done" /\ browser # "none" /\ ArtifactParses) =>
    /\ status = "success" <=> verification.issues = 0
    /\ status = "partial" <=> (correction_attempts >= 1 /\ verification.issues > 0)
    /\ status = "error" <=> (correction_attempts = 0 /\ verification.issues > 0)

\* the code differs from before by one occurrence of old replaced by new
OneOccurrenceReplaced(before, after, old, new) ==
  \E k \in 1..Len(before) :
    /\ StartsAt(before, old, k)
    /\ after = SubSeq(before, 1, k - 1) \o new \o SubSeq(before, k + Len(old), Len(before))

\* C6: a correction whose failing literal occurs in the
\* artifact replaces exactly one occurrence of it and nothing else
C6_ExactlyOneOccurrence ==
  \A r \in Range(corrections) :
    Contains(r.before, r.originalLiteral) =>
      OneOccurrenceReplaced(r.before, r.after, r.originalLiteral, r.replacementLiteral)

\* C7: applying a correction again to the patched
\* artifact changes nothing
C7_Idempotent ==
  \A r \in Range(corrections) :
    apply_correction(r.after, r.originalLiteral, r.replacementLiteral) = r.after

\* C8: a substitution made in code that parses leaves
\* code that parses
C8_SubstitutionKeepsSyntax ==
  \A r \in Range(corrections) :
    verify_code_syntax(r.before) = "success" => verify_code_syntax(r.after) = "success"

\* C9: whatever the verifier meets (element not found, selector rejected, the
\* query raising on a dead session, a failed navigation), no exception leaves
\* verify_locator or the correction loop: the resolution ends with a status
C9_FailureIsData ==
  /\ ~raised
  /\ pc = "done" => status \in {"success", "partial", "skipped"}

\* C9 witness: the query raised in both verifications of a resolution that was
\* corrected once and handed back as partial
C9_Witness ==
  /\ pc = "done"
  /\ session = "dead"
  /\ status = "partial"
  /\ correction_attempts > 0
  /\ reverifications > 0
  /\ \E c \in Range(verification.locator_checks) : c.result.error = "Target closed"

\* what the document query of a check's locator gives now
QueryOf(locator) ==
  execute_script(session, DomAt(url, appDom),
                 str_strip(_extract_selector_from_code(locator), Quotes))

\* the check's locator yields a selector, and its query raises or reports an error
QueryFails(locator) ==
  /\ _extract_selector_from_code(locator) # <<>>
  /\ QueryOf(locator).raised \/ QueryOf(locator).error # ""

\* C10: when the query of a locator raises or reports an error, the result of
\* its check has status error and carries the error text of the query, which
\* tells it from the result of a plain not-found
C10_QueryErrorCaptured ==
  \A c \in Range(verification.locator_checks) :
    QueryFails(c.locator) =>
      /\ c.result.status = "error"
      /\ c.result.error = QueryOf(c.locator).error
      /\ c.result.error # "Element not found"

\* C10 witness: one verification holds a check whose query reported an invalid
\* selector and a check that plainly found nothing
C10_Witness ==
  /\ \E c \in Range(verification.locator_checks) :
       QueryFails(c.locator) /\ c.result.error = "not a valid selector"
  /\ \E c \in Range(verification.locator_checks) :
       c.result.found = "false" /\ c.result.error = "Element not found"

\* C11: every verify_locator call of a verification issues exactly one document
\* query and never navigates: the verification counts as many queries as it
\* holds checks and no navigation, whatever URL the page showed
C11_OneQueryNoNavigation ==
  /\ verification.navigations = 0
  /\ verification.queries = Len(verification.locator_checks)

\* the document query of a check's locator finds an element
QueryFinds(locator) ==
  /\ _extract_selector_from_code(locator) # <<>>
  /\ ~QueryOf(locator).raised
  /\ QueryOf(locator).found

\* C12: a check has status success exactly when the query of its locator
\* finds an element, and then its confidence is high when the element is
\* visible and medium when it is not, whatever candidate the locator renders
C12_SuccessIffFound ==
  \A c \in Range(verification.locator_checks) :
    /\ c.result.status = "success" <=> QueryFinds(c.locator)
    /\ c.result.status = "success" =>
         c.result.confidence = (IF QueryOf(c.locator).visible THEN "high" ELSE "medium")

\* C12 witness: a check found an element that is not visible and reports
\* success with confidence medium
C12_Witness ==
  \E c \in Range(verification.locator_checks) :
    /\ QueryFinds(c.locator)
    /\ ~QueryOf(c.locator).visible
    /\ c.result.status = "success"
    /\ c.result.confidence = "medium"

\* the generator has answered for the element with a list
Generated == pc \in {"generated", "selected"} /\ ~_generate_xpath_raises(elements[1])

\* C13: for a descriptor with a non-empty id, the first generated candidate
\* has strategy id and renders to the locator of selector #<id>
C13_IdFirst ==
  (Generated /\ elements[1].id # <<>>) =>
    /\ locators # <<>>
    /\ locators[1].strategy = "id"
    /\ get_playwright_locator_code(locators[1])
         = T_page_locator \o Q \o <<"#">> \o elements[1].id \o Q \o <<")">>

\* C13 witness: the list is generated for an element with an id, a name,
\* a class and an aria-label
C13_Witness ==
  /\ Generated
  /\ elements[1].id # <<>> /\ elements[1].name # <<>>
  /\ elements[1].class # <<>> /\ elements[1].ariaLabel # <<>>
  /\ Len(locators) >= 5

\* the element has no id, name, class, aria-label, role or text
NoAttributes(e) ==
  /\ e.id = <<>> /\ e.name = <<>> /\ e.class = <<>>
  /\ e.ariaLabel = <<>> /\ e.role = <<>> /\ e.text = <<>>

\* C14: for a descriptor without any identifying attribute or text, exactly
\* one candidate is generated, the bare-tag XPath //tag, and the locator
\* selected for the element has confidence low
C14_BareTagLow ==
  (pc = "selected" /\ NoAttributes(elements[1])) =>
    /\ Len(locators) = 1
    /\ locators[1].strategy = "xpath"
    /\ locators[1].value = <<"/","/">> \o elements[1].tag
    /\ best.confidence = "low"

\* the place of a strategy in the emission order of the generator
EmissionRank(strategy) ==
  CASE strategy = "id" -> 1 [] strategy = "name" -> 2 [] strategy = "css" -> 3
    [] strategy = "semantic" -> 4 [] strategy = "xpath" -> 5 [] strategy = "text" -> 6

C17_RendererAgrees ==
  Generated =>
    \A i \in 1..Len(locators) :
      locators[i].playwright_code = get_playwright_locator_code(locators[i])

\* C16: once corrections were applied to the code of a test, the code
\* generate_test_code hands on, in individual_tests and in the combined
\* test_code, is the corrected code
C16_CorrectedCodeHandedOn ==
  (pc = "done" /\ status \in {"success", "partial"} /\ correction_attempts > 0) =>
    /\ handed_on(generated_tests).individual_tests = <<corrected_code>>
    /\ handed_on(generated_tests).test_code = _combine_test_code(<<corrected_code>>)

\* the positions of the candidates of strategy fs in list all
PositionsOf(all, fs) == {k \in 1..Len(all) : all[k].strategy = fs}

\* the candidate ranked next after the failing one: the first candidate after
\* the first position of strategy fs whose strategy differs from fs, and the
\* first candidate of the list when none follows
NextRanked(all, fs) ==
  LET after == {k \in 1..Len(all) : k > MinOf(PositionsOf(all, fs)) /\ all[k].strategy # fs}
  IN IF after = {} THEN all[1] ELSE all[MinOf(after)]

\* C18: the replacement of a failing locator is the first candidate ranked
\* after the failing candidate whose strategy differs from the failing
\* strategy; the choice wraps around to the first candidate of the list only
\* when no such candidate follows
C18_NextRankedReplacement ==
  \A r \in Range(corrections) :
    PositionsOf(_generate_locators(elements[r.elementIndex]),
                failed_strategy(r.originalLiteral)) # {} =>
      r.replacementLiteral =
        NextRanked(_generate_locators(elements[r.elementIndex]),
                   failed_strategy(r.originalLiteral)).playwright_code

\* the locators of seq come in the order of their first appearance in code
InOrderOfAppearance(seq, code) ==
  \A i, j \in 1..Len(seq) : i < j => Find(code, seq[i], 1) <= Find(code, seq[j], 1)

\* C19: the locators are verified, and the failing ones corrected in the
\* first pass, in the order in which they first appear in the artifact,
\* whichever call form each one uses
C19_OrderOfAppearance ==
  /\ (pc = "loop" /\ attempt = 0) =>
       InOrderOfAppearance([k \in 1..Len(verification.locator_checks) |->
                              verification.locator_checks[k].locator], test_code)
  /\ attempt = 1 =>
       InOrderOfAppearance([k \in 1..Len(corrections) |-> corrections[k].originalLiteral],
                           test_code)

\* the corrections whose original literal occurred in the code when they
\* were applied
AppliedCorrections ==
  {k \in 1..Len(corrections) : Contains(corrections[k].before, corrections[k].originalLiteral)}

\* C20: a correction whose original literal no longer occurs in the code at
\* its substitution leaves the code unchanged and is not counted among the
\* corrections applied
C20_AbsentLiteralNotCounted ==
  /\ \A r \in Range(corrections) :
       ~Contains(r.before, r.originalLiteral) => r.after = r.before
  /\ pc = "done" => correction_attempts = Cardinality(AppliedCorrections)

\* the code literals the candidates of an element carry
CodesOf(element) ==
  { _generate_locators(element)[k].playwright_code :
      k \in 1..Len(_generate_locators(element)) }

\* the elements of the test case a locator literal addresses
AddressedBy(literal) ==
  { k \in Range(related_elements) : literal \in CodesOf(elements[k]) }

\* C21: the replacement of a correction is generated from the element its
\* failing locator addresses: a locator that is a candidate of some element of
\* the test case is never corrected from an element it is no candidate of
C21_AddressedElement ==
  \A r \in Range(corrections) :
    AddressedBy(r.originalLiteral) # {} => r.elementIndex \in AddressedBy(r.originalLiteral)

\* the code literals rendered from the xpath-strategy candidates of an element
XPathCodes(element) ==
  { get_playwright_locator_code(l) :
      l \in { c \in Range(_generate_locators(element)) : c.strategy = "xpath" } }

\* el is an element the XPath of _generate_xpath(element) selects
XPathSelects(element, el) ==
  /\ el.tag = element.tag
  /\ IF element.id # <<>> THEN el.id = element.id
     ELSE IF element.name # <<>> THEN el.name = element.name
     ELSE IF element.class # <<>> THEN el.class = first_token(element.class)
     ELSE TRUE

\* C22: a locator rendered from an xpath-strategy candidate is evaluated as an
\* XPath expression: when the document the page shows holds an element the
\* XPath selects, its check is a success
C22_XPathVerifiesFound ==
  \A c \in Range(verification.locator_checks) :
    ( /\ ~_generate_xpath_raises(elements[1])
      /\ c.locator \in XPathCodes(elements[1])
      /\ \E k \in 1..Len(LiveDocument) : XPathSelects(elements[1], LiveDocument[k]) )
    => c.result.status = "success"

\* the fixed rank of a candidate's strategy: id 1, name 2, aria-label 2, css 3,
\* role 3, xpath 4, text 5 (a semantic candidate is the aria-label one when
\* the element has an aria-label, else the role one)
FixedPriority(c, element) ==
  IF c.strategy = "id" THEN 1
  ELSE IF c.strategy \in {"name", "aria-label"} THEN 2
  ELSE IF c.strategy = "semantic" THEN (IF element.ariaLabel # <<>> THEN 2 ELSE 3)
  ELSE IF c.strategy = "css" THEN 3
  ELSE IF c.strategy = "xpath" THEN 4
  ELSE 5

\* C23: every candidate select_best_locator can meet, generated by the
\* selector or suggested at exploration, carries the fixed rank of its strategy
C23_FixedPriorities ==
  \A c \in Range(suggested_locators) \cup Range(locators) :
    c.priority = FixedPriority(c, elements[1])

\* C24: when the initial verification succeeds no correction is attempted and
\* the artifact is unchanged; once a verification has succeeded no further
\* pass runs and nothing is substituted
C24_SuccessStopsCorrection ==
  [][ /\ (pc = "start" /\ verification'.overall_status = "success") =>
           /\ corrected_code' = test_code
           /\ correction_attempts' = 0
           /\ corrections' = <<>>
           /\ attempt' = 0
           /\ pc' = "done"
      /\ verification.overall_status = "success" =>
           /\ corrected_code' = corrected_code
           /\ correction_attempts' = correction_attempts
           /\ corrections' = corrections
           /\ attempt' = attempt
           /\ reverifications' = reverifications
           /\ pc' = "done" ]_vars

\* C24 witness: the first pass corrected the code, its re-verification
\* succeeded, and the resolution ended with passes left
C24_Witness ==
  /\ pc = "done"
  /\ status = "success"
  /\ attempt = 1
  /\ range_has_next(attempt)
  /\ corrections # <<>>
  /\ reverifications = 1
  /\ verification.overall_status = "success"

\* C25: a literal that has failed verification is never substituted back: no
\* correction that changes the code puts in the literal a correction of an
\* earlier pass took out
C25_NoFailedLiteralAgain ==
  \A i, j \in 1..Len(corrections) :
    ( /\ corrections[j].attemptNumber < corrections[i].attemptNumber
      /\ Contains(corrections[i].before, corrections[i].originalLiteral) )
      => corrections[i].replacementLiteral # corrections[j].originalLiteral

\* C26: the verifier extracts a selector from every code literal of a
\* candidate, the generator's own and the renderer's
C26_GeneratedLiteralExtracts ==
  \A c \in Range(locators) :
    /\ _extract_selector_from_code(c.playwright_code) # <<>>
    /\ _extract_selector_from_code(get_playwright_locator_code(c)) # <<>>

\* C27: for every descriptor, a class attribute of whitespace only and no
\* attributes at all included, candidate generation and select_best_locator
\* end without raising, with at least one candidate and a selection
C27_SelectionNeverRaises ==
  /\ ~raised
  /\ pc \in {"generated", "selected"} => Len(locators) >= 1
  /\ pc = "selected" => best.strategy # ""

\* the entries of verification_results that report a failed generation
GenerationErrors == { k \in 1..Len(verification_results) : verification_results[k].status = "error" }

\* C28: generate_test_code returns one verification result for each selected
\* test case, in the order of the test cases, and the generated tests and the
\* generation-error results together number the selected test cases
C28_OneResultPerTestCase ==
  (pc = "returned" /\ result = "success") =>
    /\ Len(verification_results) = Len(test_cases)
    /\ \A k \in 1..Len(verification_results) : verification_results[k].test_id = test_cases[k].id
    /\ Len(generated_tests) + Cardinality(GenerationErrors) = Len(test_cases)

\* C28 witness: a call returned for two test cases of which one was generated
\* and verified and the other failed to generate
C28_Witness ==
  /\ pc = "returned"
  /\ result = "success"
  /\ Len(test_cases) = 2
  /\ Len(generated_tests) = 1
  /\ Cardinality(GenerationErrors) = 1
  /\ browser = "live"

\* C29: the execution log and the screenshots a run returns hold only entries
\* that run produced
C29_OnlyOwnEvidence ==
  \A e \in Range(execution.execution_log) \cup Range(execution.screenshots) :
    e.run = execution.run

\* C30: a user message reaches an active session that was opened with a
\* system instruction only after that instruction was delivered to it
C30_InstructionDeliveredFirst ==
  ( /\ active_chat.open
    /\ chat_system_instruction # "None"
    /\ "user" \in Range(active_chat.history) )
  => active_chat.history[1] = "system"

====
